---- MODULE Spec2Model ----
\* Model of download_and_process.py (CarbonExplorer): the record loader
\* prepareEIAData, the range extractor extractBARange and the carbon
\* aggregator calculateAVGCarbonIntensity, with the module globals eba_json,
\* ba_list and ts_list.
\*
\* Strings are sequences of one-character strings, so that the regular
\* expressions and the series-id formatting are computed, not assumed.
\* Timestamps are records [wall, aware, utcoffset]: wall is the wall-clock
\* reading in minutes since day 0 00:00, aware is FALSE for a timestamp
\* without tzinfo, utcoffset is the zone's offset from UTC in minutes.
EXTENDS Integers, Sequences, FiniteSets, TLC

VARIABLES
    eba_json,    \* the global eba_json: the loaded record set
    ba_list,     \* the global ba_list
    ts_list,     \* the global ts_list
    op,          \* the function called last
    raised,      \* the exception the last call raised, "None" if it returned
    printed,     \* the lines the last call printed
    call,        \* the arguments of the last extractBARange call since the load
    repeated,    \* how the call just made repeats the extractBARange call before it
    dfa,         \* the caller's table: the last table returned, as it is now
    dfa0,        \* that table as extractBARange returned it
    db0,         \* the table as it was passed to the last calculateAVGCarbonIntensity
    tot_carbon,  \* the frame the last calculateAVGCarbonIntensity returned
    loads        \* the number of prepareEIAData calls

vars == <<eba_json, ba_list, ts_list, op, raised, printed, call, repeated,
          dfa, dfa0, db0, tot_carbon, loads>>

\* ---------------------------------------------------------------- bounds
MaxDay == 1
MaxPairs == 2
MaxIds == 2
MaxLoads == 2

\* ------------------------------------------------------------- constants
MinutesPerHour == 60
HoursPerDay == 24

\* the result of a failed re.search, and of a successful one
NoMatch == [matched |-> FALSE, group |-> <<>>]
Match(g) == [matched |-> TRUE, group |-> g]

\* ---------------------------------------------------------------- strings
EBA_DOT == <<"E", "B", "A", ".">>
ALL_NG == <<"-", "A", "L", "L", ".", "N", "G", ".">>
DOT_H == <<".", "H">>
CISO == <<"C", "I", "S", "O">>
TEST == <<"T", "E", "S", "T">>
PJM == <<"P", "J", "M">>

WND == <<"W", "N", "D">>
SUN == <<"S", "U", "N">>
WAT == <<"W", "A", "T">>
OIL == <<"O", "I", "L">>
NG == <<"N", "G">>
COL == <<"C", "O", "L">>
NUC == <<"N", "U", "C">>
OTH == <<"O", "T", "H">>

Upper == {"A", "B", "C", "D", "E", "F", "G", "H", "I", "J", "K", "L", "M",
          "N", "O", "P", "Q", "R", "S", "T", "U", "V", "W", "X", "Y", "Z"}

SetMin(S) == CHOOSE x \in S : \A y \in S : x <= y

\* a Python str / a non-string cell (NaN of a record without series_id)
Str(s) == [type |-> "str", val |-> s]
NaN == [type |-> "float", val |-> <<>>]

\* x in lst, for a Python list
InList(x, lst) == \E i \in 1..Len(lst) : lst[i] = x

\* ------------------------------------------------------ regular expressions
\* re.search("EBA.(.+?)-", s).group(1): leftmost start of E,B,A, any
\* character, then the shortest non-empty run that is followed by "-".
\* NoMatch when there is no match.
BAStarts(s) ==
    {i \in 1..Len(s) :
        /\ i + 5 <= Len(s)
        /\ s[i] = "E" /\ s[i + 1] = "B" /\ s[i + 2] = "A"
        /\ \E j \in (i + 5)..Len(s) : s[j] = "-"}

SearchBA(s) ==
    IF BAStarts(s) = {} THEN NoMatch
    ELSE LET i == SetMin(BAStarts(s))
             j == SetMin({k \in (i + 5)..Len(s) : s[k] = "-"})
         IN  Match(SubSeq(s, i + 4, j - 1))

\* The end of the longest run of characters of class cls starting at p
\* (p - 1 when s[p] is not in cls).
RECURSIVE RunEnd(_, _, _)
RunEnd(s, p, cls) ==
    IF p <= Len(s) /\ s[p] \in cls THEN RunEnd(s, p + 1, cls) ELSE p - 1

\* re.search("EBA.CISO-([A-Z\-]+\.)([A-Z\.\-]*)", s).group(2): group 1 is a
\* non-empty run of [A-Z-] followed by "."; group 2 is the longest run of
\* [A-Z.-] after it (possibly empty). NoMatch when there is no match.
TSStarts(s) ==
    {i \in 1..Len(s) :
        /\ i + 10 <= Len(s)
        /\ s[i] = "E" /\ s[i + 1] = "B" /\ s[i + 2] = "A"
        /\ SubSeq(s, i + 4, i + 7) = CISO
        /\ s[i + 8] = "-"
        /\ LET q == RunEnd(s, i + 9, Upper \cup {"-"})
           IN  q >= i + 9 /\ q + 1 <= Len(s) /\ s[q + 1] = "."}

SearchTS(s) ==
    IF TSStarts(s) = {} THEN NoMatch
    ELSE LET i == SetMin(TSStarts(s))
             q == RunEnd(s, i + 9, Upper \cup {"-"})
         IN  Match(SubSeq(s, q + 2, RunEnd(s, q + 2, Upper \cup {".", "-"})))

\* ------------------------------------------------------------ record loader
\* list(eba_json.series_id.unique()): the distinct cells in first-seen order
RECURSIVE Unique(_)
Unique(ids) ==
    IF ids = <<>> THEN <<>>
    ELSE LET front == Unique(SubSeq(ids, 1, Len(ids) - 1))
             last == ids[Len(ids)]
         IN  IF InList(last, front) THEN front ELSE Append(front, last)

SeriesIdColumn(json) == [i \in 1..Len(json) |-> json[i].series_id]

\* list(filter(lambda x: type(x) == str, series_id_unique))
RECURSIVE FilterStr(_)
FilterStr(ids) ==
    IF ids = <<>> THEN <<>>
    ELSE IF Head(ids).type = "str"
         THEN <<Head(ids).val>> \o FilterStr(Tail(ids))
         ELSE FilterStr(Tail(ids))

series_id_unique(json) == FilterStr(Unique(SeriesIdColumn(json)))

\* ts_list.append(m.group(2))
TsAppend(ts, code) == Append(ts, code)

\* The loop of prepareEIAData over sids, from the catalogs [ba, ts, err]:
\* an id that a pattern does not match raises AttributeError (m is None)
\* and leaves the catalogs as the earlier iterations made them.
RECURSIVE CatalogLoop(_, _)
CatalogLoop(sids, st) ==
    IF sids = <<>> \/ st.err # "None" THEN st
    ELSE LET sid == Head(sids)
             m == SearchBA(sid)
             ba_this == m.group
             ba1 == IF InList(ba_this, st.ba) THEN st.ba
                    ELSE Append(st.ba, ba_this)
             m2 == SearchTS(sid)
         IN  IF ~m.matched
             THEN [st EXCEPT !.err = "AttributeError"]
             ELSE IF ba_this # CISO
             THEN CatalogLoop(Tail(sids), [st EXCEPT !.ba = ba1])
             ELSE IF ~m2.matched
             THEN [st EXCEPT !.ba = ba1, !.err = "AttributeError"]
             ELSE CatalogLoop(Tail(sids),
                      [st EXCEPT !.ba = ba1, !.ts = TsAppend(st.ts, m2.group)])

\* ---------------------------------------------------------------- tables
NoTable == [kind |-> "None", index |-> <<>>, columns |-> <<>>, values |-> <<>>]
DataFrame(index, columns, values) ==
    [kind |-> "DataFrame", index |-> index, columns |-> columns,
     values |-> values]

\* Energy types
ng_list == <<WND, SUN, WAT, OIL, NG, COL, NUC, OTH>>

\* Carbon intensity of the energy types, gCO2eq/kWh
carbon_intensity ==
    (WND :> 11) @@ (SUN :> 41) @@ (WAT :> 24) @@ (OIL :> 650) @@
    (NG :> 490) @@ (COL :> 820) @@ (NUC :> 12) @@ (OTH :> 230)

\* the keys of carbon_intensity in insertion order
carbon_intensity_keys == <<WND, SUN, WAT, OIL, NG, COL, NUC, OTH>>

\* ------------------------------------------------------------- timestamps
Naive(w) == [wall |-> w, aware |-> FALSE, utcoffset |-> 0]
Aware(w, off) == [wall |-> w, aware |-> TRUE, utcoffset |-> off]

\* the instant of a timezone-aware timestamp, in minutes UTC; comparisons
\* of aware timestamps compare instants
Instant(ts) == ts.wall - ts.utcoffset

\* normalize_to_utc localizing a naive timestamp to a zone five hours west
\* of UTC instead of to UTC
normalize_to_utc_local(timestamp) ==
    IF ~timestamp.aware
    THEN Aware(timestamp.wall + 300, 0)
    ELSE Aware(timestamp.wall - timestamp.utcoffset, 0)

normalize_to_utc(timestamp) ==
    IF ~timestamp.aware
    THEN Aware(timestamp.wall, 0)
    ELSE Aware(timestamp.wall - timestamp.utcoffset, 0)

\* pd.to_datetime(..., utc=True) of one cell: the UTC instant
to_datetime_utc(timestamp) ==
    IF timestamp.aware THEN timestamp.wall - timestamp.utcoffset
    ELSE timestamp.wall

\* pd.Timestamp('<day>T00Z', tz='UTC')
DayStart(day) == Aware(day * HoursPerDay * MinutesPerHour, 0)

\* date_range that leaves out the last hour
date_range_open(start_day, end_day) ==
    LET first == Instant(DayStart(start_day))
        last == Instant(DayStart(end_day))
        n == IF last < first THEN 0
             ELSE (last - first) \div MinutesPerHour
    IN  [k \in 1..n |-> first + (k - 1) * MinutesPerHour]

\* pd.date_range(start_day, end_day, freq="H", tz='UTC'): the UTC instants
date_range(start_day, end_day) ==
    LET first == Instant(DayStart(start_day))
        last == Instant(DayStart(end_day))
        n == IF last < first THEN 0
             ELSE ((last - first) \div MinutesPerHour) + 1
    IN  [k \in 1..n |-> first + (k - 1) * MinutesPerHour]

\* --------------------------------------------------------- range extractor
\* 'EBA.{0}-ALL.NG.{1}.H'.format(ba_idx, ng_idx)
SeriesIdx(ba_idx, ng_idx) == EBA_DOT \o ba_idx \o ALL_NG \o ng_idx \o DOT_H

\* eba_json[eba_json['series_id'] == series_idx].reset_index(drop=True)
ThisJson(json, series_idx) ==
    SelectSeq(json.rows, LAMBDA r : r.series_id = Str(series_idx))

\* the filter with the range end excluded
InRangeOpenEnd(x, start_idx, end_idx) ==
    /\ Instant(normalize_to_utc(x[1])) >= Instant(start_idx)
    /\ Instant(normalize_to_utc(x[1])) < Instant(end_idx)

\* the filter of lines 167-173
InRange(x, start_idx, end_idx) ==
    /\ Instant(normalize_to_utc(x[1])) >= Instant(start_idx)
    /\ Instant(normalize_to_utc(x[1])) <= Instant(end_idx)

TupleFiltered(tuple_list, start_idx, end_idx) ==
    SelectSeq(tuple_list, LAMBDA x : InRange(x, start_idx, end_idx))

\* df['timestamp'] = pd.to_datetime(df['timestamp'], utc=True)
ToDatetimeColumn(tuples) ==
    [i \in 1..Len(tuples) |-> <<to_datetime_utc(tuples[i][1]), tuples[i][2]>>]

\* df.sort_values(by=['timestamp'], ascending=True)
RECURSIVE Insert(_, _)
Insert(sorted, x) ==
    IF sorted = <<>> THEN <<x>>
    ELSE IF x[1] < Head(sorted)[1] THEN <<x>> \o sorted
         ELSE <<Head(sorted)>> \o Insert(Tail(sorted), x)

RECURSIVE SortValues(_)
SortValues(df) ==
    IF df = <<>> THEN <<>>
    ELSE Insert(SortValues(SubSeq(df, 1, Len(df) - 1)), df[Len(df)])

\* the index made by set_index('timestamp') has duplicate labels
HasDuplicates(df) ==
    \E i, j \in 1..Len(df) : i # j /\ df[i][1] = df[j][1]

\* .reindex(index=idx, fill_value=0) on a frame with unique labels: the
\* power at each label of idx, 0 where the frame has no such label
Reindex(df, idx) ==
    [k \in 1..Len(idx) |->
        IF \E i \in 1..Len(df) : df[i][1] = idx[k]
        THEN df[CHOOSE i \in 1..Len(df) : df[i][1] = idx[k]][2]
        ELSE 0]

\* the messages with the comparisons made inclusive
WarningsInclusive(rec, ng_idx, start_idx, end_idx) ==
    LET start_dat == normalize_to_utc(rec.start)
        end_dat == normalize_to_utc(rec.end)
    IN  (IF Instant(start_idx) <= Instant(start_dat)
         THEN <<[text |-> "precedes", ng |-> ng_idx]>> ELSE <<>>)
        \o
        (IF Instant(end_idx) >= Instant(end_dat)
         THEN <<[text |-> "beyond", ng |-> ng_idx]>> ELSE <<>>)

\* the range-mismatch messages of lines 160-163 for one record
Warnings(rec, ng_idx, start_idx, end_idx) ==
    LET start_dat == normalize_to_utc(rec.start)
        end_dat == normalize_to_utc(rec.end)
    IN  (IF Instant(start_idx) < Instant(start_dat)
         THEN <<[text |-> "precedes", ng |-> ng_idx]>> ELSE <<>>)
        \o
        (IF Instant(end_idx) > Instant(end_dat)
         THEN <<[text |-> "beyond", ng |-> ng_idx]>> ELSE <<>>)

\* The loop of lines 147-178 from fuel number n on, with the local ba_list
\* (the columns built so far) and the lines printed so far in st. reindex
\* on duplicate labels raises ValueError and ends the call.
RECURSIVE FuelLoop(_, _, _, _, _, _, _)
FuelLoop(json, ba_idx, start_idx, end_idx, idx, n, st) ==
    IF n > Len(ng_list) \/ st.err # "None" THEN st
    ELSE LET ng_idx == ng_list[n]
             this_json == ThisJson(json, SeriesIdx(ba_idx, ng_idx))
             rec == this_json[1]
             out == st.printed \o Warnings(rec, ng_idx, start_idx, end_idx)
             df == SortValues(ToDatetimeColumn(
                       TupleFiltered(rec.data, start_idx, end_idx)))
         IN  IF this_json = <<>>
             THEN FuelLoop(json, ba_idx, start_idx, end_idx, idx, n + 1,
                      [st EXCEPT !.ba_list =
                          Append(@, [k \in 1..Len(idx) |-> 0])])
             ELSE IF HasDuplicates(df)
             THEN [st EXCEPT !.printed = out, !.err = "ValueError"]
             ELSE FuelLoop(json, ba_idx, start_idx, end_idx, idx, n + 1,
                      [st EXCEPT !.printed = out,
                                 !.ba_list = Append(@, Reindex(df, idx))])

\* np.array(ba_list).transpose()
Transpose(cols, nrows) ==
    [i \in 1..nrows |-> [j \in 1..Len(cols) |-> cols[j][i]]]

\* extractBARange as a function of the record set and its arguments:
\* [err, dfa, printed]
ExtractResult(json, ba_idx, start_day, end_day) ==
    LET start_idx == DayStart(start_day)
        end_idx == DayStart(end_day)
        idx == date_range(start_day, end_day)
        st == FuelLoop(json, ba_idx, start_idx, end_idx, idx, 1,
                  [ba_list |-> <<>>, printed |-> <<>>, err |-> "None"])
    IN  [err |-> st.err,
         printed |-> st.printed,
         dfa |-> IF st.err # "None" THEN NoTable
                 ELSE DataFrame(idx, ng_list,
                                Transpose(st.ba_list, Len(idx)))]

\* -------------------------------------------------------- carbon aggregator
\* the aggregator without the clipping of line 190
ClipNothing(db) == db

\* the aggregator taking absolute values instead of clipping
ClipAbs(db) ==
    [db EXCEPT !.values =
        [i \in 1..Len(db.values) |->
            [j \in 1..Len(db.values[i]) |->
                IF db.values[i][j] < 0 THEN 0 - db.values[i][j]
                ELSE db.values[i][j]]]]

\* db[db < 0] = 0
Clip(db) ==
    [db EXCEPT !.values =
        [i \in 1..Len(db.values) |->
            [j \in 1..Len(db.values[i]) |->
                IF db.values[i][j] < 0 THEN 0 ELSE db.values[i][j]]]]

RECURSIVE SumSeq(_)
SumSeq(row) == IF row = <<>> THEN 0 ELSE Head(row) + SumSeq(Tail(row))

\* db.sum(axis=1)
SumRows(db) == [i \in 1..Len(db.values) |-> SumSeq(db.values[i])]

\* db[c]: the column labelled c
Column(db, c) ==
    LET j == CHOOSE k \in 1..Len(db.columns) : db.columns[k] = c
    IN  [i \in 1..Len(db.values) |-> db.values[i][j]]

\* the loop of lines 192-196 over the first n keys of carbon_intensity
RECURSIVE WeightedSum(_, _)
WeightedSum(db, n) ==
    IF n = 0 THEN [i \in 1..Len(db.values) |-> 0]
    ELSE LET c == carbon_intensity_keys[n]
             rest == WeightedSum(db, n - 1)
         IN  [i \in 1..Len(db.values) |->
                 rest[i] + carbon_intensity[c] * Column(db, c)[i]]

RECURSIVE GCD(_, _)
GCD(a, b) == IF b = 0 THEN a ELSE GCD(b, a % b)

Abs(x) == IF x < 0 THEN 0 - x ELSE x
Sign(x) == IF x < 0 THEN 0 - 1 ELSE IF x = 0 THEN 0 ELSE 1

\* a float that is the exact quotient a / b, in lowest terms, b # 0
Float(a, b) ==
    [kind |-> "float",
     num |-> Sign(b) * (a \div GCD(Abs(a), Abs(b))),
     den |-> Abs(b) \div GCD(Abs(a), Abs(b))]

\* The quotient of two numbers as pandas computes it: nan for 0/0, inf or
\* -inf for x/0, the quotient otherwise.
NotANumber == [kind |-> "nan", num |-> 0, den |-> 0]
Infinity(sign) == [kind |-> "inf", num |-> sign, den |-> 0]

\* the quotient with the undefined values replaced by 0
DivFillZero(a, b) == IF b = 0 THEN Float(0, 1) ELSE Float(a, b)

Div(a, b) ==
    IF b = 0 THEN (IF a = 0 THEN NotANumber ELSE Infinity(Sign(a)))
    ELSE Float(a, b)

\* tot_carbon.div(sum_db).to_frame(), renamed to carbon_intensity, of the
\* clipped table db
CarbonFrame(db) ==
    LET sum_db == SumRows(db)
        tot == WeightedSum(db, Len(carbon_intensity_keys))
    IN  DataFrame(db.index, <<"carbon_intensity">>,
                  [i \in 1..Len(db.values) |-> <<Div(tot[i], sum_db[i])>>])

\* ------------------------------------------------------------------ inputs
Rec(sid, bounds, data) ==
    [series_id |-> sid, start |-> bounds[1], end |-> bounds[2], data |-> data]

Day == HoursPerDay * MinutesPerHour

\* timestamps of data pairs: day 0 00:00 naive and labelled UTC (the same
\* instant), day 0 19:00 at UTC-5 (day 1 00:00 UTC)
Stamps == {Naive(0), Aware(0, 0), Aware(Day - 300, -300)}
Values == {-2, 7}
Pairs == Stamps \X Values
DataPool == UNION {[1..n -> Pairs] : n \in 0..MaxPairs}

\* declared bounds: covering every requested range, starting at day 1
\* 00:00 UTC, ending at day 0 01:00
Covering == <<Naive(0), Naive((MaxDay + 2) * Day)>>
LateStart == <<Aware(Day - 300, -300), Naive((MaxDay + 2) * Day)>>
EarlyEnd == <<Naive(0), Naive(MinutesPerHour)>>
BoundsPool == {Covering, LateStart, EarlyEnd}

FuelId(ba, ng) == Str(SeriesIdx(ba, ng))

\* the record of the end-to-end example: hourly pairs of 100 over three
\* days, labelled UTC
ExampleData == [k \in 1..(2 * HoursPerDay + 1) |->
                   <<Aware((k - 1) * MinutesPerHour, 0), 100>>]
ExampleFile == <<Rec(FuelId(TEST, NUC), <<Aware(0, 0), Aware(2 * Day, 0)>>,
                     ExampleData)>>

\* the data of a second fuel's record
CompanionData == <<<<Naive(0), 7>>, <<Aware(Day - 300, -300), -2>>>>

DataFiles ==
    {<<Rec(FuelId(TEST, NUC), b, d)>> : b \in BoundsPool, d \in DataPool}
    \cup
    {<<Rec(FuelId(TEST, COL), Covering, CompanionData),
       Rec(FuelId(TEST, NUC), Covering, <<p>>)>> : p \in Pairs}
    \cup
    {ExampleFile,
     \* two records of one series: the first one is used
     <<Rec(FuelId(TEST, WND), Covering, <<<<Naive(0), 7>>>>),
       Rec(FuelId(TEST, WND), EarlyEnd, <<<<Naive(0), -2>>>>)>>,
     \* pairs off the hour, once and twice
     <<Rec(FuelId(TEST, SUN), Covering,
           <<<<Naive(30), 7>>, <<Naive(MinutesPerHour), 7>>>>)>>,
     <<Rec(FuelId(TEST, SUN), Covering,
           <<<<Naive(30), 7>>, <<Aware(30, 0), -2>>>>)>>,
     \* a record without series_id, and records of two authorities
     <<Rec(NaN, Covering, <<<<Naive(0), 7>>>>),
       Rec(FuelId(CISO, OTH), Covering, <<<<Aware(0, 0), 7>>>>),
       Rec(FuelId(TEST, OTH), LateStart, <<<<Naive(30), 7>>>>)>>}

QueryBAs == {TEST, CISO}

\* series ids of catalog files
SidPool ==
    {FuelId(CISO, WND),
     Str(EBA_DOT \o CISO \o <<"-", "A", "Z", "P", "S", ".", "I", "D">> \o DOT_H),
     Str(EBA_DOT \o CISO \o <<"-", "B", "A", "N", "C", ".", "I", "D">> \o DOT_H),
     FuelId(TEST, NUC),
     Str(EBA_DOT \o PJM \o <<"-", "A", "L", "L", ".", "D">> \o DOT_H),
     NaN,
     \* an id without "-"
     Str(EBA_DOT \o CISO \o DOT_H)}

CatalogFiles ==
    UNION {[1..n -> {Rec(sid, Covering, <<>>) : sid \in SidPool}] :
              n \in 1..MaxIds}

\* ------------------------------------------------------------------- state
NoFrame == [kind |-> "None", rows |-> <<>>]
NoCall == [made |-> FALSE, ba_idx |-> <<>>, start_day |-> 0, end_day |-> 0]

Init ==
    /\ eba_json = NoFrame
    /\ ba_list = <<>>
    /\ ts_list = <<>>
    /\ op = "import"
    /\ raised = "None"
    /\ call = NoCall
    /\ repeated = "no"
    /\ dfa = NoTable
    /\ dfa0 = NoTable
    /\ printed = <<>>
    /\ db0 = NoTable
    /\ tot_carbon = NoTable
    /\ loads = 0

\* -------------------------------------------------------------- operations
\* prepareEIAData(path) where the file at path holds the records of file
prepareEIAData(file) ==
    LET st == CatalogLoop(series_id_unique(file),
                  [ba |-> ba_list, ts |-> ts_list, err |-> "None"])
    IN  /\ eba_json' = [kind |-> "DataFrame", rows |-> file]
        /\ ba_list' = st.ba
        /\ ts_list' = st.ts
        /\ raised' = st.err
        /\ printed' = IF st.err = "None"
                      THEN <<[text |-> "EIA data prep done!", ng |-> <<>>]>>
                      ELSE <<>>
        /\ op' = "prepareEIAData"
        /\ call' = NoCall
        /\ repeated' = "no"
        /\ loads' = loads + 1
        /\ UNCHANGED <<dfa, dfa0, db0, tot_carbon>>

\* extractBARange without its local ba_list: the columns are appended to
\* the module's catalog
GlobalsAfterExtractShared(json, bas, tss, cols) == <<json, bas \o cols, tss>>

\* the globals after a call of extractBARange: its ba_list is a local
\* (line 145), the module's catalogs and record set are not assigned
GlobalsAfterExtract(json, bas, tss, cols) == <<json, bas, tss>>

\* dfa = extractBARange(ba_idx, start_day, end_day) by a caller that keeps
\* the returned table in dfa (and holds no table when the call raised)
extractBARange(ba_idx, start_day, end_day) ==
    /\ eba_json.kind = "DataFrame"
    /\ \E r \in {ExtractResult(eba_json, ba_idx, start_day, end_day)} :
        LET g == GlobalsAfterExtract(eba_json, ba_list, ts_list, r.dfa.values)
        IN
        /\ eba_json' = g[1]
        /\ ba_list' = g[2]
        /\ ts_list' = g[3]
        /\ raised' = r.err
        /\ printed' = r.printed
        /\ dfa' = r.dfa
        /\ dfa0' = r.dfa
        /\ call' = [made |-> TRUE, ba_idx |-> ba_idx,
                    start_day |-> start_day, end_day |-> end_day]
        /\ repeated' = IF call' # call THEN "no"
                       ELSE IF tot_carbon.kind = "DataFrame"
                            THEN "after calculateAVGCarbonIntensity"
                            ELSE "directly"
        /\ op' = "extractBARange"
        /\ db0' = NoTable
        /\ tot_carbon' = NoTable
        /\ UNCHANGED loads

\* tot_carbon = calculateAVGCarbonIntensity(dfa): dfa is clipped in place
calculateAVGCarbonIntensity ==
    /\ dfa.kind = "DataFrame"
    /\ db0' = dfa
    /\ dfa' = Clip(dfa)
    /\ tot_carbon' = CarbonFrame(dfa')
    /\ op' = "calculateAVGCarbonIntensity"
    /\ raised' = "None"
    /\ printed' = <<>>
    /\ repeated' = "no"
    /\ UNCHANGED <<eba_json, ba_list, ts_list, call, dfa0, loads>>

\* ----------------------------------------------------------- specifications
\* the pipeline: one load, then any number of queries
Load == \E file \in DataFiles : loads = 0 /\ prepareEIAData(file)

Extract ==
    \E ba_idx \in QueryBAs, start_day \in 0..MaxDay :
        \E end_day \in start_day..MaxDay :
            extractBARange(ba_idx, start_day, end_day)

Calculate == calculateAVGCarbonIntensity

Next == Load \/ Extract \/ Calculate

Spec == Init /\ [][Next]_vars

\* the loader called up to MaxLoads times in one process
LoadCatalog == \E file \in CatalogFiles : loads < MaxLoads /\ prepareEIAData(file)

NextLoad == LoadCatalog

SpecLoad == Init /\ [][NextLoad]_vars

\* ------------------------------------------------------------------ claims
\* The statements below are written against the observable values only: the
\* record set, the arguments of the call, the table and what was printed.

\* the UTC instant a timestamp denotes when a missing zone means UTC
UtcMinutes(ts) == IF ts.aware THEN ts.wall - ts.utcoffset ELSE ts.wall

ReqStart == call.start_day * 24 * 60
ReqEnd == call.end_day * 24 * 60
ReqHours == (call.end_day - call.start_day) * 24

\* the records of fuel number j for the authority of the call
Matching(j) ==
    SelectSeq(eba_json.rows,
        LAMBDA r : r.series_id.type = "str" /\
                   r.series_id.val = EBA_DOT \o call.ba_idx \o ALL_NG
                                         \o ng_list[j] \o DOT_H)

\* the pairs of a record inside the requested range
PairsInRange(rec) ==
    {i \in 1..Len(rec.data) :
        /\ UtcMinutes(rec.data[i][1]) >= ReqStart
        /\ UtcMinutes(rec.data[i][1]) <= ReqEnd}

\* a record the call uses holds two pairs inside the requested range with
\* the same UTC-normalized timestamp
DuplicateInRange ==
    \E j \in 1..8 :
        LET m == Matching(j)
        IN  /\ m # <<>>
            /\ \E i1, i2 \in PairsInRange(m[1]) :
                  /\ i1 # i2
                  /\ UtcMinutes(m[1].data[i1][1]) = UtcMinutes(m[1].data[i2][1])

\* the table has one row per hour of the requested range, ascending, and
\* the 8 fuel columns in order
FullTable(t) ==
    /\ t.kind = "DataFrame"
    /\ Len(t.index) = ReqHours + 1
    /\ Len(t.values) = ReqHours + 1
    /\ \A k \in 1..Len(t.index) : t.index[k] = ReqStart + (k - 1) * 60
    /\ t.columns = <<WND, SUN, WAT, OIL, NG, COL, NUC, OTH>>
    /\ \A k \in 1..Len(t.values) : Len(t.values[k]) = 8

\* C1 as stated: every call of extractBARange with d0 <= d1 returns a table
\* with hours(d0, d1) + 1 hourly rows in ascending order and the 8 fuel
\* columns, for every loaded record set.
C1_Original == call.made => FullTable(dfa0)

\* C1 amended: the call returns that table whenever no record it uses holds
\* two pairs inside the requested range with the same UTC-normalized
\* timestamp, and raises ValueError instead of returning a table otherwise.
C1_Amended ==
    call.made =>
        /\ ~DuplicateInRange => FullTable(dfa0)
        /\ (op = "extractBARange" /\ DuplicateInRange) =>
               (raised = "ValueError" /\ dfa0.kind = "None")

\* a 25-row table was returned from a record with sparse data: one fuel has
\* a non-zero cell and a zero cell, another fuel has no record
C1_Witness ==
    /\ op = "extractBARange" /\ raised = "None"
    /\ call.start_day = 0 /\ call.end_day = 1
    /\ Len(dfa0.values) = 25
    /\ \E j \in 1..8 :
          /\ Matching(j) # <<>>
          /\ dfa0.values[1][j] # 0 /\ dfa0.values[2][j] = 0
    /\ \E j \in 1..8 : Matching(j) = <<>>

\* column j of table t holds, at every hour, the value of the pair of the
\* (first) record of fuel j at that hour, and 0 without such a pair or
\* without a record
ColumnHolds(t, j) ==
    LET m == Matching(j)
        data == m[1].data
        at == [i \in 1..Len(data) |-> UtcMinutes(data[i][1])]
    IN  IF m = <<>> THEN \A k \in 1..Len(t.values) : t.values[k][j] = 0
        ELSE \A k \in 1..Len(t.values) :
                /\ \A i \in 1..Len(data) :
                       at[i] = ReqStart + (k - 1) * 60 =>
                           t.values[k][j] = data[i][2]
                /\ (\A i \in 1..Len(data) : at[i] # ReqStart + (k - 1) * 60)
                       => t.values[k][j] = 0

\* C2: every cell (h, f) of a returned table is the value of the pair of
\* the record of f whose UTC-normalized timestamp is h, the range start and
\* the range end included, and 0 when there is no such pair or no such
\* record; this does not mention the order of the pairs.
C2_Cells ==
    (call.made /\ dfa0.kind = "DataFrame") =>
        \A j \in 1..8 : ColumnHolds(dfa0, j)

\* a returned table holds a pair at exactly the range start and a pair at
\* exactly the range end, from a record whose pairs are in descending order
C2_Witness ==
    /\ op = "extractBARange" /\ raised = "None"
    /\ call.start_day = 0 /\ call.end_day = 1
    /\ \E j \in 1..8 :
          /\ Matching(j) # <<>>
          /\ Len(Matching(j)[1].data) = 2
          /\ UtcMinutes(Matching(j)[1].data[1][1]) = ReqEnd
          /\ UtcMinutes(Matching(j)[1].data[2][1]) = ReqStart
          /\ dfa0.values[1][j] = 7 /\ dfa0.values[25][j] = -2

\* C3: a call of extractBARange that repeats the arguments of the call
\* before it, with no load in between, returns the same table, also when
\* calculateAVGCarbonIntensity clipped the first table in between; and no
\* call of extractBARange or calculateAVGCarbonIntensity changes eba_json,
\* ba_list or ts_list.
C3_Repeatable ==
    [][/\ (op' = "extractBARange" /\ call.made /\ call' = call)
              => dfa0' = dfa0
       /\ op' \in {"extractBARange", "calculateAVGCarbonIntensity"}
              => UNCHANGED <<eba_json, ba_list, ts_list>>]_vars

\* the call was repeated after calculateAVGCarbonIntensity had changed the
\* first table
C3_Witness ==
    /\ op = "extractBARange"
    /\ repeated = "after calculateAVGCarbonIntensity"
    /\ dfa0.kind = "DataFrame"
    /\ \E k \in 1..Len(dfa0.values) : \E j \in 1..8 : dfa0.values[k][j] < 0

\* claim-side arithmetic on a row of the table passed to the aggregator
Floor0(x) == IF x < 0 THEN 0 ELSE x
RowTotal(row) ==
    Floor0(row[1]) + Floor0(row[2]) + Floor0(row[3]) + Floor0(row[4]) +
    Floor0(row[5]) + Floor0(row[6]) + Floor0(row[7]) + Floor0(row[8])
RowEmissions(row) ==
    11 * Floor0(row[1]) + 41 * Floor0(row[2]) + 24 * Floor0(row[3]) +
    650 * Floor0(row[4]) + 490 * Floor0(row[5]) + 820 * Floor0(row[6]) +
    12 * Floor0(row[7]) + 230 * Floor0(row[8])
Factors == <<11, 41, 24, 650, 490, 820, 12, 230>>

\* C4: for every row whose clipped total is positive the result is the sum
\* of factor * max(gen, 0) divided by the sum of max(gen, 0); a row where
\* one fuel alone generates gives that fuel's factor, and the end-to-end
\* example gives 25 rows of 12.
C4_Intensity ==
    op = "calculateAVGCarbonIntensity" =>
        /\ \A i \in 1..Len(db0.values) :
              RowTotal(db0.values[i]) > 0 =>
                  LET v == tot_carbon.values[i][1]
                  IN  /\ v.kind = "float"
                      /\ v.den > 0
                      /\ v.num * RowTotal(db0.values[i]) =
                             RowEmissions(db0.values[i]) * v.den
                      /\ \A j \in 1..8 :
                            Floor0(db0.values[i][j]) = RowTotal(db0.values[i])
                                => (v.num = Factors[j] /\ v.den = 1)
        /\ (eba_json.rows = ExampleFile /\ call.ba_idx = TEST
                /\ call.start_day = 0 /\ call.end_day = 1) =>
              /\ Len(tot_carbon.values) = 25
              /\ \A i \in 1..25 :
                    /\ dfa0.values[i] = <<0, 0, 0, 0, 0, 0, 100, 0>>
                    /\ tot_carbon.values[i][1].kind = "float"
                    /\ tot_carbon.values[i][1].num = 12
                    /\ tot_carbon.values[i][1].den = 1

\* a row with a positive coal cell and a negative nuclear cell was
\* aggregated: the result is the coal factor
C4_Witness ==
    /\ op = "calculateAVGCarbonIntensity"
    /\ \E i \in 1..Len(db0.values) :
          /\ db0.values[i][6] > 0 /\ db0.values[i][7] < 0
          /\ tot_carbon.values[i][1].kind = "float"
          /\ tot_carbon.values[i][1].num = 820
          /\ tot_carbon.values[i][1].den = 1

\* C5: a row whose clipped total is zero gets not-a-number and the call
\* raises nothing; the other rows get numbers and the result has the index
\* of the input.
C5_ZeroRows ==
    op = "calculateAVGCarbonIntensity" =>
        /\ raised = "None"
        /\ tot_carbon.kind = "DataFrame"
        /\ tot_carbon.index = db0.index
        /\ Len(tot_carbon.values) = Len(db0.values)
        /\ \A i \in 1..Len(db0.values) :
              IF RowTotal(db0.values[i]) = 0
              THEN tot_carbon.values[i][1].kind = "nan"
              ELSE tot_carbon.values[i][1].kind = "float"

\* one call met a row of zeros, a row with only a negative cell and a row
\* with generation
C5_Witness ==
    /\ op = "calculateAVGCarbonIntensity"
    /\ \E i1, i2, i3 \in 1..Len(db0.values) :
          /\ db0.values[i1] = <<0, 0, 0, 0, 0, 0, 0, 0>>
          /\ RowTotal(db0.values[i2]) = 0 /\ \E j \in 1..8 : db0.values[i2][j] < 0
          /\ RowTotal(db0.values[i3]) > 0
          /\ tot_carbon.values[i1][1].kind = "nan"
          /\ tot_carbon.values[i3][1].kind = "float"

\* the record set with every naive timestamp labelled UTC, and with every
\* UTC label removed
LabelUTC(ts) == IF ts.aware THEN ts ELSE [ts EXCEPT !.aware = TRUE]
UnlabelUTC(ts) ==
    IF ts.aware /\ ts.utcoffset = 0 THEN [ts EXCEPT !.aware = FALSE] ELSE ts
Relabelled(json, F(_)) ==
    [json EXCEPT !.rows =
        [n \in 1..Len(json.rows) |->
            [json.rows[n] EXCEPT
                !.start = F(@),
                !.end = F(@),
                !.data = [i \in 1..Len(@) |-> <<F(@[i][1]), @[i][2]>>]]]]

TimestampsOf(json) ==
    UNION {{json.rows[n].start, json.rows[n].end}
               \cup {json.rows[n].data[i][1] : i \in 1..Len(json.rows[n].data)} :
           n \in 1..Len(json.rows)}

\* C6: the record set with its naive timestamps labelled UTC, and the one
\* with its UTC labels removed, give the table the loaded record set gave
\* for the same authority and range; and normalize_to_utc leaves a
\* normalized timestamp unchanged.
C6_NaiveIsUTC ==
    /\ call.made =>
          /\ ExtractResult(Relabelled(eba_json, LabelUTC), call.ba_idx,
                           call.start_day, call.end_day).dfa = dfa0
          /\ ExtractResult(Relabelled(eba_json, UnlabelUTC), call.ba_idx,
                           call.start_day, call.end_day).dfa = dfa0
    /\ \A ts \in TimestampsOf(eba_json) :
          normalize_to_utc(normalize_to_utc(ts)) = normalize_to_utc(ts)

\* a table with a non-zero cell was returned from a record that has a naive
\* timestamp inside the range and a timestamp labelled with another zone
C6_Witness ==
    /\ op = "extractBARange" /\ raised = "None"
    /\ \E j \in 1..8 :
          /\ Matching(j) # <<>>
          /\ \E i \in PairsInRange(Matching(j)[1]) :
                /\ ~Matching(j)[1].data[i][1].aware
                /\ dfa0.values[1][j] = Matching(j)[1].data[i][2]
          /\ \E i \in PairsInRange(Matching(j)[1]) :
                Matching(j)[1].data[i][1].utcoffset # 0
          /\ Relabelled(eba_json, LabelUTC) # eba_json

\* the warnings the claim expects from fuel number j on
RECURSIVE ExpectedWarnings(_)
ExpectedWarnings(j) ==
    IF j > 8 THEN <<>>
    ELSE (IF Matching(j) # <<>> /\ ReqStart < UtcMinutes(Matching(j)[1].start)
          THEN <<[text |-> "precedes", ng |-> ng_list[j]]>> ELSE <<>>)
         \o
         (IF Matching(j) # <<>> /\ ReqEnd > UtcMinutes(Matching(j)[1].end)
          THEN <<[text |-> "beyond", ng |-> ng_list[j]]>> ELSE <<>>)
         \o ExpectedWarnings(j + 1)

IsPrefix(a, b) == Len(a) <= Len(b) /\ SubSeq(b, 1, Len(a)) = a

\* what the call printed and whether it returned, as C7 has it: a call that
\* returns has warned for exactly the fuels concerned, a call raises only
\* on duplicate timestamps, after warning for the fuels it reached, and
\* otherwise returns the full table
WarnsAndReturns ==
    LET expected == ExpectedWarnings(1)
    IN  /\ raised = "None" => printed = expected
        /\ raised # "None" => (IsPrefix(printed, expected) /\ DuplicateInRange)
        /\ ~DuplicateInRange => (raised = "None" /\ FullTable(dfa0))

\* column j of table t is zero at every hour outside the declared bounds
\* of the record of fuel j
ZeroOutsideBounds(t, j) ==
    LET m == Matching(j)
        lo == UtcMinutes(m[1].start)
        hi == UtcMinutes(m[1].end)
    IN  m # <<>> =>
            \A k \in 1..Len(t.values) :
                (ReqStart + (k - 1) * 60 < lo \/ ReqStart + (k - 1) * 60 > hi)
                    => t.values[k][j] = 0

\* column j of table t is zero at every hour for which the record of fuel
\* j holds no pair
ZeroWithoutPair(t, j) ==
    LET m == Matching(j)
        at == {UtcMinutes(m[1].data[i][1]) : i \in 1..Len(m[1].data)}
    IN  m # <<>> =>
            \A k \in 1..Len(t.values) :
                ReqStart + (k - 1) * 60 \notin at => t.values[k][j] = 0

\* C7 as stated: the call warns for exactly the fuels whose record's
\* declared bounds the request exceeds, does not fail because of that (it
\* raises only on duplicate timestamps, after warning for the fuels it
\* reached) and returns the full table, and every requested hour outside
\* the declared bounds of a fuel's record is zero in that fuel's column.
C7_Original ==
    op = "extractBARange" =>
        /\ WarnsAndReturns
        /\ raised = "None" => \A j \in 1..8 : ZeroOutsideBounds(dfa0, j)

\* C7 amended: the same, except that the hours that are zero in a fuel's
\* column are those for which the fuel's record holds no pair: a pair the
\* record holds outside its declared bounds is reported as it is.
C7_Amended ==
    op = "extractBARange" =>
        /\ WarnsAndReturns
        /\ raised = "None" => \A j \in 1..8 : ZeroWithoutPair(dfa0, j)

\* a call whose range starts before the declared start of a record warned,
\* returned the full table, and left the hours without a pair at zero
C7_Witness ==
    /\ op = "extractBARange" /\ raised = "None"
    /\ FullTable(dfa0)
    /\ Len(dfa0.values) = 25
    /\ \E j \in 1..8 :
          /\ Matching(j) # <<>>
          /\ printed = <<[text |-> "precedes", ng |-> ng_list[j]]>>
          /\ dfa0.values[2][j] = 0
          /\ dfa0.values[25][j] # 0

\* the string series ids of a file, in file order
StringIds(rows) ==
    LET ids == SelectSeq(rows, LAMBDA r : r.series_id.type = "str")
    IN  [n \in 1..Len(ids) |-> ids[n].series_id.val]

\* the text between the leading 'EBA.' and the following '-'
CodeOf(s) ==
    SubSeq(s, 5, SetMin({q \in 5..Len(s) : s[q] = "-"}) - 1)

RECURSIVE Distinct(_)
Distinct(seq) ==
    IF seq = <<>> THEN <<>>
    ELSE LET d == Distinct(SubSeq(seq, 1, Len(seq) - 1))
         IN  IF \E n \in 1..Len(d) : d[n] = seq[Len(seq)] THEN d
             ELSE Append(d, seq[Len(seq)])

\* C8: the BA catalog a call of prepareEIAData returns holds exactly the
\* codes of the string series ids of the file that call loaded, each once,
\* in first-seen order, at every call.
C8_Catalog ==
    (op = "prepareEIAData" /\ raised = "None") =>
        ba_list = Distinct([n \in 1..Len(StringIds(eba_json.rows)) |->
                               CodeOf(StringIds(eba_json.rows)[n])])

\* C9: the sub-series catalog a call of prepareEIAData returns holds no
\* code twice, and holds the code of every CISO series id of the file.
C9_SubSeries ==
    (op = "prepareEIAData" /\ raised = "None") =>
        /\ \A n1, n2 \in 1..Len(ts_list) : n1 # n2 => ts_list[n1] # ts_list[n2]
        /\ \A n \in 1..Len(StringIds(eba_json.rows)) :
              CodeOf(StringIds(eba_json.rows)[n]) = CISO =>
                  \E m \in 1..Len(ts_list) :
                      ts_list[m] = SubSeq(StringIds(eba_json.rows)[n],
                          SetMin({q \in 10..Len(StringIds(eba_json.rows)[n]) :
                                     StringIds(eba_json.rows)[n][q] = "."}) + 1,
                          Len(StringIds(eba_json.rows)[n]))

\* C10: calculateAVGCarbonIntensity changes the caller's table only by
\* setting its negative cells to 0, index and columns untouched; a second
\* call on the same table returns the same frame and changes nothing more.
C10_ClipInPlace ==
    [][op' = "calculateAVGCarbonIntensity" =>
          /\ dfa'.kind = dfa.kind
          /\ dfa'.index = dfa.index
          /\ dfa'.columns = dfa.columns
          /\ Len(dfa'.values) = Len(dfa.values)
          /\ \A k \in 1..Len(dfa.values) :
                /\ Len(dfa'.values[k]) = Len(dfa.values[k])
                /\ \A j \in 1..Len(dfa.values[k]) :
                      dfa'.values[k][j] =
                          IF dfa.values[k][j] < 0 THEN 0 ELSE dfa.values[k][j]
          /\ op = "calculateAVGCarbonIntensity" =>
                (dfa' = dfa /\ tot_carbon' = tot_carbon)]_vars

\* the aggregator ran a second time on a table its first run had clipped
C10_Witness ==
    /\ op = "calculateAVGCarbonIntensity"
    /\ db0 = dfa
    /\ dfa # dfa0
    /\ \E k \in 1..Len(dfa0.values) : \E j \in 1..8 :
          dfa0.values[k][j] < 0 /\ dfa.values[k][j] = 0

====
